---- MODULE Spec2Model ----
(***************************************************************************)
(* artificer: build a container image from a base image, local files and  *)
(* a config, and push it (src/main.go).  The model follows run() from its  *)
(* first statement to its return: getImage, buildNewImage (applyConfig,    *)
(* addNewLayerFromFiles, createTarFile, tarwalk and its walk callback) and  *)
(* pushImage.                                                              *)
(*                                                                         *)
(* Strings that the code takes apart (paths) are sequences of one-char      *)
(* strings, so that filepath.Base, filepath.Join, filepath.Clean and       *)
(* strings.TrimPrefix are computed character by character as the Go        *)
(* library computes them.  The host is a Unix host (Separator = "/").      *)
(***************************************************************************)
EXTENDS Integers, Sequences, FiniteSets, TLC

\* ------------------------------------------------------------------------
\* Bounds of the model
\* ------------------------------------------------------------------------
MaxFiles == 2          \* at most this many -f arguments
MaxBaseLayers == 2     \* the base image has 0..MaxBaseLayers layers

\* ------------------------------------------------------------------------
\* Strings and paths
\* ------------------------------------------------------------------------
Separator == "/"

HasPrefix(s, prefix) ==
    /\ Len(prefix) <= Len(s)
    /\ SubSeq(s, 1, Len(prefix)) = prefix

\* strings.TrimPrefix: s without the leading prefix, s itself when it does
\* not start with prefix
TrimPrefix(s, prefix) ==
    IF HasPrefix(s, prefix) THEN SubSeq(s, Len(prefix) + 1, Len(s)) ELSE s

RECURSIVE Split(_)
\* the components of a path between separators ("" components included)
Split(s) ==
    IF \A i \in 1..Len(s) : s[i] # Separator
    THEN <<s>>
    ELSE LET k == CHOOSE i \in 1..Len(s) :
                      /\ s[i] = Separator
                      /\ \A j \in 1..(i - 1) : s[j] # Separator
         IN  <<SubSeq(s, 1, k - 1)>> \o Split(SubSeq(s, k + 1, Len(s)))

RECURSIVE JoinSep(_)
\* components joined with the separator
JoinSep(cs) ==
    IF cs = <<>> THEN <<>>
    ELSE IF Len(cs) = 1 THEN cs[1]
    ELSE cs[1] \o <<Separator>> \o JoinSep(Tail(cs))

RECURSIVE CleanComps(_, _, _)
\* filepath.Clean's pass over the components: "" and "." are dropped, ".."
\* removes the component before it, and is kept at the front of a path that
\* is not rooted
CleanComps(cs, out, rooted) ==
    IF cs = <<>> THEN out
    ELSE LET c == Head(cs) IN
         IF c = <<>> \/ c = <<".">> 
         THEN CleanComps(Tail(cs), out, rooted)
         ELSE IF c = <<".", ".">>
         THEN IF out # <<>> /\ out[Len(out)] # <<".", ".">>
              THEN CleanComps(Tail(cs), SubSeq(out, 1, Len(out) - 1), rooted)
              ELSE IF rooted THEN CleanComps(Tail(cs), out, rooted)
              ELSE CleanComps(Tail(cs), Append(out, c), rooted)
         ELSE CleanComps(Tail(cs), Append(out, c), rooted)

\* filepath.Clean
Clean(path) ==
    IF path = <<>> THEN <<".">>
    ELSE LET rooted == path[1] = Separator
             body == JoinSep(CleanComps(Split(path), <<>>, rooted))
         IN  IF rooted THEN <<Separator>> \o body
             ELSE IF body = <<>> THEN <<".">> ELSE body

\* filepath.Join of two elements: empty elements are ignored, the rest is
\* joined with the separator and cleaned
Join(a, b) ==
    IF a = <<>> /\ b = <<>> THEN <<>>
    ELSE IF a = <<>> THEN Clean(b)
    ELSE IF b = <<>> THEN Clean(a)
    ELSE Clean(a \o <<Separator>> \o b)

RECURSIVE StripTrailingSep(_)
StripTrailingSep(s) ==
    IF s # <<>> /\ s[Len(s)] = Separator
    THEN StripTrailingSep(SubSeq(s, 1, Len(s) - 1))
    ELSE s

\* filepath.Base: the last element of the path, trailing separators removed
Base(path) ==
    IF path = <<>> THEN <<".">>
    ELSE LET p == StripTrailingSep(path) IN
         IF p = <<>> THEN <<Separator>>
         ELSE LET cs == Split(p) IN cs[Len(cs)]

\* filepath.ToSlash: every Separator replaced by "/"
ToSlash(s) == [i \in 1..Len(s) |-> IF s[i] = Separator THEN "/" ELSE s[i]]

\* os.FileInfo.Name() of a path handed to os.Lstat: its last element
\* (os.basename)
basename(name) ==
    LET p == StripTrailingSep(name) IN
    IF p = <<>> THEN name
    ELSE LET cs == Split(p) IN cs[Len(cs)]

\* byte order of the characters that occur in the model's paths
Alphabet == <<".", "/", "b", "d", "f", "g", "h", "l", "s">>
Ord(c) == CHOOSE i \in 1..Len(Alphabet) : Alphabet[i] = c

RECURSIVE StrLess(_, _)
\* s sorts before t (sort.Strings)
StrLess(s, t) ==
    IF t = <<>> THEN FALSE
    ELSE IF s = <<>> THEN TRUE
    ELSE IF Head(s) # Head(t) THEN Ord(Head(s)) < Ord(Head(t))
    ELSE StrLess(Tail(s), Tail(t))

RECURSIVE SortStrings(_)
SortStrings(S) ==
    IF S = {} THEN <<>>
    ELSE LET m == CHOOSE x \in S : \A y \in S \ {x} : StrLess(x, y)
         IN  <<m>> \o SortStrings(S \ {m})

\* ------------------------------------------------------------------------
\* The file system under the working directory
\* ------------------------------------------------------------------------
nF == <<"f">>
nB == <<"b">>
nG == <<"g">>
nL == <<"l">>
nD == <<"d">>
nS == <<"s">>
nH == <<".", "h">>

\* node (a sequence of names from the working directory) -> file mode
\*   .        directory
\*   .h       regular file
\*   f/       directory     f/b regular file, f/l symbolic link to f/b
\*   g/       directory     g/d device, g/f/ directory, g/f/b regular file
\*   s        socket
FileSystem ==
    ( <<>> :> "dir" ) @@ ( <<nH>> :> "regular" ) @@
    ( <<nF>> :> "dir" ) @@ ( <<nF, nB>> :> "regular" ) @@
    ( <<nF, nL>> :> "symlink" ) @@
    ( <<nG>> :> "dir" ) @@ ( <<nG, nD>> :> "device" ) @@
    ( <<nG, nF>> :> "dir" ) @@ ( <<nG, nF, nB>> :> "regular" ) @@
    ( <<nS>> :> "socket" )

\* where a symbolic link points
LinkTarget == ( <<nF, nL>> :> <<nF, nB>> )

\* the node a relative path names
Resolve(path) == CleanComps(Split(path), <<>>, FALSE)

\* os.Lstat: the mode of the node itself
LstatMode(path) == FileSystem[Resolve(path)]

\* os.Stat: symbolic links are followed
StatMode(path) ==
    LET n == Resolve(path) IN
    IF FileSystem[n] = "symlink" THEN FileSystem[LinkTarget[n]]
    ELSE FileSystem[n]

\* readDirNames: the names in a directory, sorted
readDirNames(path) ==
    LET n == Resolve(path) IN
    SortStrings({ m[Len(m)] : m \in { x \in DOMAIN FileSystem :
                      /\ Len(x) = Len(n) + 1
                      /\ SubSeq(x, 1, Len(n)) = n } })

\* the -f arguments the model draws from: a directory spelled plainly, with
\* a trailing separator and with a leading "./", the working directory, a
\* second directory with the same base name, a regular file, a symbolic
\* link and a socket
Sources ==
    { <<"f">>, <<"f", "/">>, <<".", "/", "f">>, <<".">>,
      <<"g", "/", "f">>, <<"f", "/", "b">>, <<"f", "/", "l">>, <<"s">> }

\* ------------------------------------------------------------------------
\* Values
\* ------------------------------------------------------------------------
NoRef == 0                       \* a nil v1.Image
NoErr == [cause |-> "nil", trail |-> <<>>]
NoLayer == [id |-> "none", tar |-> <<>>]
NoFault == [kind |-> "none", at |-> 0]

\* a fresh error of an external call
NewErr(cause) == [cause |-> cause, trail |-> <<>>]

\* errors.Wrap / errors.Wrapf: the message is put in front of the trail
Wrap(e, msg) == [e EXCEPT !.trail = <<msg>> \o @]

\* the -e and -c arguments the model draws from
EnvChoices == { <<>>, <<"PORT=8080", "B=2">> }
CmdChoices == { "", "/app --serve" }

RECURSIVE SeqsUpTo(_, _)
\* the sequences over S of length at most n
SeqsUpTo(S, n) ==
    IF n = 0 THEN { <<>> }
    ELSE LET shorter == SeqsUpTo(S, n - 1) IN
         shorter \cup { Append(q, x) : q \in shorter, x \in S }

\* creation time of the base image, and the time.Now() of the build
BaseCreated == 0
BuildTime == 1

BaseLayer(i) == [id |-> <<"base", i>>, tar |-> <<>>]

\* the image remote.Image returns: n layers, an environment and a command
RemoteImage(n) ==
    [ env     |-> <<"A=1">>,
      cmd     |-> <<"/bin/sh">>,
      created |-> BaseCreated,
      layers  |-> [i \in 1..n |-> BaseLayer(i)],
      diffIDs |-> [i \in 1..n |-> BaseLayer(i).id] ]

\* the manifest digest: a function of the layers and of the config blob
Digest(v) ==
    [ layers |-> [i \in 1..Len(v.layers) |-> v.layers[i].id],
      config |-> [env |-> v.env, cmd |-> v.cmd, created |-> v.created,
                  diffIDs |-> v.diffIDs] ]

\* ------------------------------------------------------------------------
\* State
\* ------------------------------------------------------------------------
VARIABLES
    pc,          \* where run() is: "run", "getImage", "buildNewImage",
                 \* "createTarFile", "walk", "copy", "layer", "pushImage",
                 \* "Done", "Failed"
    p,           \* the parsed arguments: files, env, cmd
    heap,        \* the image values that exist, by reference (1..Len(heap))
    baseImage,   \* run's baseImage
    image,       \* buildNewImage's image
    finalImage,  \* run's finalImage
    err,         \* the error run() returns
    calls,       \* the stages run() has called, each with its result
    srcIdx,      \* createTarFile: index of the path being archived
    baseDir,     \* tarwalk: baseDir
    todo,        \* filepath.Walk: the paths still to visit, next first
    tw,          \* the entries written to the tar writer
    visits,      \* the paths stat'ed or handed to the walk callback
    open,        \* the files opened and not yet closed
    layer,       \* the layer made from the archive
    fault,       \* the first failed file-system call: its kind, and the
                 \* number of visits made when it failed
    target       \* the image written to the destination, 0 if none

vars == <<pc, p, heap, baseImage, image, finalImage, err, calls, srcIdx,
          baseDir, todo, tw, visits, open, layer, fault, target>>

tarVars == <<srcIdx, baseDir, todo, tw, visits, open, fault>>

Init ==
    /\ pc = "run"
    /\ p \in [ files : SeqsUpTo(Sources, MaxFiles),
               env : EnvChoices,
               cmd : CmdChoices ]
    /\ heap = <<>>
    /\ baseImage = NoRef
    /\ image = NoRef
    /\ finalImage = NoRef
    /\ err = NoErr
    /\ calls = <<>>
    /\ srcIdx = 1
    /\ baseDir = <<>>
    /\ todo = <<>>
    /\ tw = <<>>
    /\ visits = <<>>
    /\ open = {}
    /\ layer = NoLayer
    /\ fault = NoFault
    /\ target = NoRef

\* the stage run() is in
Stage ==
    CASE pc = "run" -> "Idle"
      [] pc = "getImage" -> "Fetching"
      [] pc \in {"buildNewImage", "createTarFile", "walk", "copy", "layer"}
            -> "Mutating"
      [] pc = "pushImage" -> "Pushing"
      [] OTHER -> pc

Called(stage) == Append(calls, [stage |-> stage, result |-> "running"])
Returned(cs, e) ==
    [cs EXCEPT ![Len(cs)].result = IF e = NoErr THEN "ok" ELSE "err"]

\* run without the checks of err: the next stage whatever the last returned
RunAfterIgnoringErr(e, next) == next

\* run: `if err != nil { return err }` after a stage, else on to the next
RunAfter(e, next) == IF e # NoErr THEN "Failed" ELSE next

\* ------------------------------------------------------------------------
\* run, getImage
\* ------------------------------------------------------------------------
RunStart ==
    /\ pc = "run"
    /\ pc' = "getImage"
    /\ UNCHANGED <<p, heap, baseImage, image, finalImage, err, calls,
                   srcIdx, baseDir, todo, tw, visits, open, layer, fault,
                   target>>

\* getImage returning e, and run going on from it
GetImageFails(e) ==
    /\ err' = e
    /\ calls' = Returned(Called("getImage"), e)
    /\ pc' = RunAfter(e, "buildNewImage")
    /\ UNCHANGED <<heap, baseImage>>

GetImage ==
    /\ pc = "getImage"
    /\ \/ GetImageFails(Wrap(Wrap(NewErr("name.ParseReference"),
                                  "parsing url"), "parsing source URL"))
       \/ GetImageFails(Wrap(NewErr("Keychain.Resolve"), "authenticating"))
       \/ GetImageFails(Wrap(NewErr("remote.Image"), "fetching"))
       \/ \E n \in 0..MaxBaseLayers :
            /\ heap' = Append(heap, RemoteImage(n))
            /\ baseImage' = Len(heap) + 1
            /\ err' = NoErr
            /\ calls' = Returned(Called("getImage"), NoErr)
            /\ pc' = RunAfter(NoErr, "buildNewImage")
    /\ UNCHANGED <<p, image, finalImage, layer, target>>
    /\ UNCHANGED tarVars

\* ------------------------------------------------------------------------
\* buildNewImage, applyConfig
\* ------------------------------------------------------------------------
\* a ConfigFile that hands out the image's own struct
ConfigFileShared(h, img) ==
    [ config |-> [env |-> h[img].env, cmd |-> h[img].cmd],
      alias  |-> img ]

\* image.ConfigFile() of a remote image: the config blob is parsed anew on
\* every call, so the *v1.ConfigFile returned shares nothing with the image
\* (alias = NoRef).  A ConfigFile that returned the image's own struct would
\* have alias = img.
ConfigFile(h, img) ==
    [ config |-> [env |-> h[img].env, cmd |-> h[img].cmd],
      alias  |-> NoRef ]

\* the overrides added to the base config instead of replacing it
newConfigMerged(cf, env, cmd) ==
    [cf.config EXCEPT !.env = @ \o env, !.cmd = @ \o <<cmd>>]

\* imageConfig.Config.Env = env; imageConfig.Config.Cmd = []string{cmd}
newConfig(cf, env, cmd) ==
    [cf.config EXCEPT !.env = env, !.cmd = <<cmd>>]

\* what the two assignments do to the images that exist: nothing, unless
\* imageConfig is an image's own struct
AssignConfig(h, cf, c) ==
    IF cf.alias = NoRef THEN h
    ELSE [h EXCEPT ![cf.alias].env = c.env, ![cf.alias].cmd = c.cmd]

\* mutate.Config: a new image with the given config
mutateConfig(v, c) == [v EXCEPT !.env = c.env, !.cmd = c.cmd]

\* mutate.CreatedAt: a new image with the given creation time
mutateCreatedAt(v, t) == [v EXCEPT !.created = t]

\* the new layer put under the base layers instead of on top
PrependLayers(v, l) ==
    [v EXCEPT !.layers = <<l>> \o @, !.diffIDs = <<l.id>> \o @]

\* mutate.AppendLayers: a new image with the layer, and its diff-id in the
\* config, after those of the base
AppendLayers(v, l) ==
    [v EXCEPT !.layers = Append(@, l), !.diffIDs = Append(@, l.id)]

\* buildNewImage returns (nil, e), and run returns e
BuildFails(cs, e) ==
    /\ err' = e
    /\ image' = NoRef
    /\ finalImage' = NoRef
    /\ calls' = Returned(cs, e)
    /\ pc' = RunAfter(e, "pushImage")

ApplyConfig ==
    /\ pc = "buildNewImage"
    /\ baseImage # NoRef
    /\ LET cf == ConfigFile(heap, baseImage)
           c  == newConfig(cf, p.env, p.cmd)
           h1 == AssignConfig(heap, cf, c)
           v2 == mutateConfig(h1[baseImage], c)
           v3 == mutateCreatedAt(v2, BuildTime)
           cs == Called("buildNewImage")
       IN  \/ /\ heap' = heap
              /\ BuildFails(cs, Wrap(Wrap(NewErr("image.ConfigFile"),
                     "creating config file"), "applying config"))
           \/ /\ heap' = h1
              /\ BuildFails(cs, Wrap(Wrap(NewErr("mutate.Config"),
                     "applying new config"), "applying config"))
           \/ /\ heap' = Append(h1, v2)
              /\ BuildFails(cs, Wrap(Wrap(NewErr("mutate.CreatedAt"),
                     "setting created-at timestamp"), "applying config"))
           \/ /\ heap' = Append(Append(h1, v2), v3)
              /\ image' = Len(heap) + 2
              /\ calls' = cs
              /\ pc' = "createTarFile"
              /\ UNCHANGED <<err, finalImage>>
    /\ UNCHANGED <<p, baseImage, layer, target>>
    /\ UNCHANGED tarVars

\* ------------------------------------------------------------------------
\* addNewLayerFromFiles after createTarFile: the layer, and the append
\* ------------------------------------------------------------------------
LayerAndAppend ==
    /\ pc = "layer"
    /\ LET l == [id |-> <<"new", 0>>, tar |-> tw] IN
       \/ /\ BuildFails(calls, Wrap(Wrap(NewErr("tarball.LayerFromOpener"),
                 "creating layer"), "adding layer"))
          /\ UNCHANGED <<heap, layer>>
       \/ /\ layer' = l
          /\ BuildFails(calls, Wrap(Wrap(NewErr("mutate.AppendLayers"),
                 "appending Layer"), "adding layer"))
          /\ UNCHANGED heap
       \/ /\ layer' = l
          /\ heap' = Append(heap, AppendLayers(heap[image], l))
          /\ image' = Len(heap) + 1
          /\ finalImage' = Len(heap) + 1
          /\ calls' = Returned(calls, NoErr)
          /\ pc' = RunAfter(NoErr, "pushImage")
          /\ UNCHANGED err
    /\ UNCHANGED <<p, baseImage, target>>
    /\ UNCHANGED tarVars

\* ------------------------------------------------------------------------
\* pushImage
\* ------------------------------------------------------------------------
PushReturns(e) ==
    /\ err' = e
    /\ calls' = Returned(Called("pushImage"), e)
    /\ pc' = RunAfter(e, "Done")

PushImage ==
    /\ pc = "pushImage"
    /\ \/ /\ PushReturns(Wrap(NewErr("name.ParseReference"),
                              "parsing destination URL"))
          /\ UNCHANGED target
       \/ /\ PushReturns(Wrap(NewErr("Keychain.Resolve"),
                              "authenticating target"))
          /\ UNCHANGED target
       \/ /\ PushReturns(NewErr("remote.Write"))
          /\ UNCHANGED target
       \/ /\ PushReturns(NoErr)
          /\ target' = finalImage
    /\ UNCHANGED <<p, heap, baseImage, image, finalImage, layer>>
    /\ UNCHANGED tarVars

\* ------------------------------------------------------------------------
\* createTarFile, tarwalk and the walk callback
\* ------------------------------------------------------------------------
\* tar.FileInfoHeader(info, info.Name()): the name is the file's own name,
\* a directory's with a "/" after it; a socket has no header
HeaderSupported(mode) == mode # "socket"
FileInfoHeaderName(mode, name) ==
    IF mode = "dir" THEN name \o <<"/">> ELSE name

\* the Name of the header the callback writes for path under source
headerName(path, source, mode, bd) ==
    IF bd # <<>>
    THEN ToSlash(Join(bd, TrimPrefix(path, source)))
    ELSE FileInfoHeaderName(mode, basename(path))

\* the callback without its deferred Close
CloseFileLeaked(o, path) == o

\* defer file.Close()
CloseFile(o, path) == o \ {path}

\* the callback swallowing the error: the walk goes on with the next path
TarFailsIgnored(e) ==
    /\ pc' = "walk"
    /\ todo' = IF todo = <<>> THEN todo ELSE Tail(todo)
    /\ UNCHANGED <<err, image, finalImage, calls, srcIdx, baseDir>>

\* an error e of tarwalk: createTarFile returns it, addNewLayerFromFiles
\* and buildNewImage wrap it and return no image, run returns it
TarFails(e) ==
    /\ BuildFails(calls, Wrap(Wrap(e, "creating tar archive"), "adding layer"))
    /\ UNCHANGED <<srcIdx, baseDir, todo>>

Visit(call, path) == [src |-> srcIdx, path |-> path, call |-> call]
Failure(kind, vs) == [kind |-> kind, at |-> Len(vs)]

\* createTarFile's loop, and tarwalk up to its call of filepath.Walk
CreateTarFile ==
    /\ pc = "createTarFile"
    /\ \/ /\ srcIdx > Len(p.files)
          /\ pc' = "layer"
          /\ UNCHANGED <<err, image, finalImage, calls>>
          /\ UNCHANGED tarVars
       \/ /\ srcIdx <= Len(p.files)
          /\ LET source == p.files[srcIdx]
                 vs == Append(visits, Visit("os.Stat", source))
             IN  /\ visits' = vs
                 /\ \/ /\ fault' = Failure("stat", vs)
                       /\ TarFails(NewErr("os.Stat"))
                    \/ /\ baseDir' = IF StatMode(source) = "dir"
                                     THEN Base(source) ELSE <<>>
                       /\ todo' = <<source>>
                       /\ pc' = "walk"
                       /\ UNCHANGED <<err, image, finalImage, calls, srcIdx,
                                      fault>>
          /\ UNCHANGED <<tw, open>>
    /\ UNCHANGED <<p, heap, baseImage, layer, target>>

\* filepath.Walk's next path, and the callback up to os.Open.  Walk calls
\* os.Lstat on the path and, for a directory, readDirNames (which opens,
\* reads and closes the directory within the call), and hands an error of
\* either to the callback, which returns it; a directory's names are then
\* walked in sorted order, each joined to the directory's path with
\* filepath.Join.
WalkStep ==
    /\ pc = "walk"
    /\ todo # <<>>
    /\ LET path == Head(todo)
           source == p.files[srcIdx]
           mode == LstatMode(path)
           names == readDirNames(path)
           vs == Append(visits, Visit("walkFn", path))
           hdr == [ name |-> headerName(path, source, mode, baseDir),
                    typeflag |-> mode, data |-> FALSE,
                    src |-> srcIdx, path |-> path ]
       IN  /\ visits' = vs
           /\ \/ /\ fault' = Failure("lstat", vs)
                 /\ TarFails(NewErr("os.Lstat"))
                 /\ UNCHANGED <<tw, open>>
              \/ /\ mode = "dir"
                 /\ fault' = Failure("readdir", vs)
                 /\ TarFails(NewErr("readDirNames"))
                 /\ UNCHANGED <<tw, open>>
              \/ /\ ~HeaderSupported(mode)
                 /\ fault' = Failure("fileinfoheader", vs)
                 /\ TarFails(NewErr("archive/tar: sockets not supported"))
                 /\ UNCHANGED <<tw, open>>
              \/ /\ HeaderSupported(mode)
                 /\ fault' = Failure("writeheader", vs)
                 /\ TarFails(NewErr("tar.WriteHeader"))
                 /\ UNCHANGED <<tw, open>>
              \/ /\ HeaderSupported(mode)
                 /\ tw' = Append(tw, hdr)
                 /\ \/ /\ mode = "dir"
                       /\ todo' = [i \in 1..Len(names) |-> Join(path, names[i])]
                                  \o Tail(todo)
                       /\ pc' = "walk"
                       /\ UNCHANGED <<err, image, finalImage, calls, srcIdx,
                                      baseDir, open, fault>>
                    \/ /\ mode \notin {"dir", "regular"}
                       /\ todo' = Tail(todo)
                       /\ pc' = "walk"
                       /\ UNCHANGED <<err, image, finalImage, calls, srcIdx,
                                      baseDir, open, fault>>
                    \/ /\ mode = "regular"
                       /\ fault' = Failure("open", vs)
                       /\ TarFails(NewErr("os.Open"))
                       /\ UNCHANGED open
                    \/ /\ mode = "regular"
                       /\ open' = open \cup {path}
                       /\ pc' = "copy"
                       /\ UNCHANGED <<err, image, finalImage, calls, srcIdx,
                                      baseDir, todo, fault>>
    /\ UNCHANGED <<p, heap, baseImage, layer, target>>

\* io.Copy, the deferred file.Close() and the callback's return
CopyFile ==
    /\ pc = "copy"
    /\ open' = CloseFile(open, Head(todo))
    /\ \/ /\ fault' = Failure("copy", visits)
          /\ TarFails(NewErr("io.Copy"))
          /\ UNCHANGED tw
       \/ /\ tw' = [tw EXCEPT ![Len(tw)].data = TRUE]
          /\ todo' = Tail(todo)
          /\ pc' = "walk"
          /\ UNCHANGED <<err, image, finalImage, calls, srcIdx, baseDir,
                         fault>>
    /\ UNCHANGED <<p, heap, baseImage, layer, target, visits>>

\* filepath.Walk and tarwalk return nil: on to the next path
TarwalkReturns ==
    /\ pc = "walk"
    /\ todo = <<>>
    /\ srcIdx' = srcIdx + 1
    /\ pc' = "createTarFile"
    /\ UNCHANGED <<p, heap, baseImage, image, finalImage, err, calls,
                   baseDir, todo, tw, visits, open, layer, fault, target>>

Next ==
    \/ RunStart
    \/ GetImage
    \/ ApplyConfig
    \/ CreateTarFile
    \/ WalkStep
    \/ CopyFile
    \/ TarwalkReturns
    \/ LayerAndAppend
    \/ PushImage

Spec == Init /\ [][Next]_vars

\* ------------------------------------------------------------------------
\* Properties
\* ------------------------------------------------------------------------
StageOrder == <<"getImage", "buildNewImage", "pushImage">>

\* C1: the stages are called in the order getImage, buildNewImage,
\* pushImage, each at most once; a stage is called only after every earlier
\* one returned without error; Done is reached only after pushImage
\* succeeded; a stage that fails is the last one called and run ends Failed.
StagesInOrder ==
    /\ Len(calls) <= Len(StageOrder)
    /\ \A i \in 1..Len(calls) : calls[i].stage = StageOrder[i]
    /\ \A i \in 1..Len(calls) :
          /\ i < Len(calls) => calls[i].result = "ok"
          /\ calls[i].result = "err" => pc = "Failed"
    /\ Stage = "Mutating" => Len(calls) >= 1 /\ calls[1].result = "ok"
    /\ Stage = "Pushing" =>
          /\ Len(calls) = 2
          /\ calls[2].result = "ok"
          /\ finalImage # NoRef
    /\ pc = "Done" =>
          /\ Len(calls) = 3
          /\ calls[3].result = "ok"
          /\ err = NoErr
          /\ target = finalImage
    /\ pc = "Failed" =>
          /\ err # NoErr
          /\ calls[Len(calls)].result = "err"
          /\ target = NoRef

\* a run that went through the three stages
StagesInOrderWitness ==
    /\ pc = "Done"
    /\ Len(calls) = 3
    /\ Len(p.files) = MaxFiles

\* C4: the image applyConfig returns has exactly the environment given, in
\* its order, and the command as one element, with nothing of the base
\* image's environment or command.
ConfigReplaced ==
    image # NoRef =>
        /\ heap[image].env = p.env
        /\ heap[image].cmd = <<p.cmd>>
        /\ Len(heap[image].cmd) = 1

\* applyConfig has returned an image whose base had another environment
ConfigReplacedWitness ==
    /\ pc = "createTarFile"
    /\ image # NoRef
    /\ heap[baseImage].env = <<"A=1">>
    /\ p.env = <<"PORT=8080", "B=2">>
    /\ p.cmd = "/app --serve"

\* C5: the image buildNewImage returns has the base image's n layers, in
\* their order, and then the new layer; so has the config's diff-id list.
NewLayerLast ==
    finalImage # NoRef =>
        LET b == heap[baseImage]
            f == heap[finalImage]
            n == Len(b.layers)
        IN  /\ Len(f.layers) = n + 1
            /\ SubSeq(f.layers, 1, n) = b.layers
            /\ f.layers[n + 1] = layer
            /\ layer # NoLayer
            /\ Len(f.diffIDs) = n + 1
            /\ SubSeq(f.diffIDs, 1, n) = b.diffIDs
            /\ f.diffIDs[n + 1] = layer.id

\* an image built on a base with several layers
NewLayerLastWitness ==
    /\ finalImage # NoRef
    /\ Len(heap[baseImage].layers) >= 2
    /\ Len(layer.tar) >= 2

IOFailures == {"stat", "lstat", "readdir", "open", "copy"}

\* C9: once a path cannot be stat'ed, listed, opened or read, nothing is
\* visited after it, run has failed with the error, buildNewImage has
\* returned no image, and no layer was made of the archive written so far.
AbortOnUnreadable ==
    fault.kind \in IOFailures =>
        /\ pc = "Failed"
        /\ err # NoErr
        /\ Len(visits) = fault.at
        /\ image = NoRef
        /\ finalImage = NoRef
        /\ layer = NoLayer
        /\ target = NoRef
        /\ \A r \in DOMAIN heap : \A i \in 1..Len(heap[r].layers) :
               heap[r].layers[i].tar = <<>>

\* an open that failed with entries already written and a path left over
AbortOnUnreadableWitness ==
    /\ fault.kind = "open"
    /\ Len(tw) >= 2
    /\ srcIdx < Len(p.files)
    /\ pc = "Failed"

\* C10: at most one file is open at any time, and only between the
\* callback's os.Open and its return: none when the next path is visited,
\* none once createTarFile has returned, with or without an error.
OneHandleAtATime ==
    /\ Cardinality(open) <= 1
    /\ pc = "copy" => open = {Head(todo)}
    /\ pc # "copy" => open = {}

\* a copy that failed: the file was open, and is closed after the failure
OneHandleAtATimeWitness ==
    /\ fault.kind = "copy"
    /\ pc = "Failed"
    /\ open = {}
    /\ Len(tw) >= 2

\* the path of node `path` relative to the directory `source`
RelativeTo(source, path) ==
    LET sn == Resolve(source)
        pn == Resolve(path)
    IN  JoinSep(SubSeq(pn, Len(sn) + 1, Len(pn)))

IsPrefix(a, b) == Len(a) <= Len(b) /\ SubSeq(b, 1, Len(a)) = a

\* C2: a node that is neither a regular file nor a directory, given as a
\* path or met in a directory, gets no entry in the archive, and
\* createTarFile does not fail because of it.
SpecialFilesSkipped ==
    \A i \in 1..Len(visits) :
        (/\ visits[i].call = "walkFn"
         /\ LstatMode(visits[i].path) \notin {"regular", "dir"})
        => /\ \A k \in 1..Len(tw) :
                 ~(tw[k].src = visits[i].src /\ tw[k].path = visits[i].path)
           /\ ~(fault.kind = "fileinfoheader" /\ fault.at = i)

\* C3: an entry written for a directory source is named by the source's
\* last element joined with the entry's path relative to the source; an
\* entry written for a single file is named by the file's base name.
ArchivePathPrefixed ==
    \A k \in 1..Len(tw) :
        LET source == p.files[tw[k].src] IN
        IF StatMode(source) = "dir"
        THEN tw[k].name = Join(Base(source), RelativeTo(source, tw[k].path))
        ELSE tw[k].name = Base(source)

\* C7: an error run returns carries the name of the stage it arose in.
ErrorsWrapped ==
    pc = "Failed" => err.trail # <<>>

\* C8: entries written for two different sources, neither inside the
\* other, never have the same archive path.
NoCollisionAtRoot ==
    \A i, j \in 1..Len(tw) :
        LET a == Resolve(p.files[tw[i].src])
            b == Resolve(p.files[tw[j].src])
        IN  (/\ tw[i].src # tw[j].src
             /\ ~IsPrefix(a, b)
             /\ ~IsPrefix(b, a))
            => tw[i].name # tw[j].name

====
